---- MODULE Spec2Model ----
(***************************************************************************)
(* Model of src/client/actions/PeerActions.ts (peer-calls).                *)
(*                                                                         *)
(* The redux store slice `peers` is the registry of transports, one per   *)
(* participant id.  `createPeer` replaces the entry of a participant,      *)
(* `PeerHandler` turns the events of a transport into dispatches and       *)
(* socket emits, `sendMessage` fans a message out over the registry and    *)
(* `sendFile` reads a file and hands it to `sendMessage`.                  *)
(*                                                                         *)
(* JavaScript runs every handler to completion, so each handler is one     *)
(* action.  The transport (simple-peer), the FileReader and the user are   *)
(* the environment: they raise events and call the public operations in    *)
(* any order.  A listener registered with `once` is removed before it      *)
(* runs; a listener registered with `on` stays for ever.                   *)
(***************************************************************************)
EXTENDS Integers, Sequences, FiniteSets, TLC

(***************************************************************************)
(* Bounds of the model.                                                    *)
(***************************************************************************)
MaxTransports == 2      \* transports ever constructed by createPeer
MaxOps == 2             \* calls of the public send operations that send

Participants == {"p1", "p2"}
Texts == {"hi"}
Signals == {"offer"}

(***************************************************************************)
(* JavaScript values, as far as the messages need them.                    *)
(***************************************************************************)
JSUndefined == [t |-> "undefined"]
JSNull == [t |-> "null"]
JSStr(s) == [t |-> "str", v |-> s]
JSNum(n) == [t |-> "num", n |-> n]
JSObj(keys, vals) == [t |-> "obj", keys |-> keys, vals |-> vals]

\* o[key]: the value of the last member named key, undefined when absent
\* or when o is a primitive.  (On null and undefined the access throws:
\* see CanAccess.)
JSGet(o, key) ==
  IF o.t = "obj" /\ \E i \in 1..Len(o.keys) : o.keys[i] = key
  THEN LET i == CHOOSE j \in 1..Len(o.keys) :
                  /\ o.keys[j] = key
                  /\ \A k \in (j+1)..Len(o.keys) : o.keys[k] # key
       IN o.vals[i]
  ELSE JSUndefined

\* o.key throws a TypeError exactly when o is null or undefined
CanAccess(o) == o.t \notin {"null", "undefined"}

\* string concatenation operand:  '' + v
JSToString(v) ==
  CASE v.t = "str" -> v.v
    [] v.t = "num" -> ToString(v.n)
    [] v.t = "null" -> "null"
    [] v.t = "undefined" -> "undefined"
    [] OTHER -> "[object Object]"

(***************************************************************************)
(* JSON text is a sequence of tokens <<class, lexeme>>; commas and colons  *)
(* are left out.  JSONStringify and JSONParse are the two directions of    *)
(* JSON over the values above.                                             *)
(***************************************************************************)
MaxNum == 10            \* largest number literal the parser knows

Tok(class, lexeme) == <<class, lexeme>>

RECURSIVE JSONStringify(_)
RECURSIVE StringifyMembers(_, _)

StringifyMembers(o, i) ==
  IF i > Len(o.keys) THEN <<>>
  ELSE (IF o.vals[i].t = "undefined" THEN <<>>
        ELSE <<Tok("key", o.keys[i])>> \o JSONStringify(o.vals[i]))
       \o StringifyMembers(o, i + 1)

JSONStringify(v) ==
  CASE v.t = "str" -> <<Tok("str", v.v)>>
    [] v.t = "num" -> <<Tok("num", ToString(v.n))>>
    [] v.t = "null" -> <<Tok("null", "")>>
    [] v.t = "obj" -> <<Tok("{", "")>> \o StringifyMembers(v, 1) \o <<Tok("}", "")>>
    [] OTHER -> <<>>

ParseFail == [ok |-> FALSE]

RECURSIVE ParseValue(_, _)
RECURSIVE ParseMembers(_, _, _, _)

ParseMembers(toks, i, keys, vals) ==
  IF i > Len(toks) THEN ParseFail
  ELSE IF toks[i][1] = "}"
       THEN [ok |-> TRUE, val |-> JSObj(keys, vals), next |-> i + 1]
  ELSE IF toks[i][1] = "key"
       THEN LET r == ParseValue(toks, i + 1)
            IN IF r.ok
               THEN ParseMembers(toks, r.next, Append(keys, toks[i][2]),
                                 Append(vals, r.val))
               ELSE ParseFail
  ELSE ParseFail

ParseValue(toks, i) ==
  IF i > Len(toks) THEN ParseFail
  ELSE CASE toks[i][1] = "null" -> [ok |-> TRUE, val |-> JSNull, next |-> i + 1]
         [] toks[i][1] = "str" ->
              [ok |-> TRUE, val |-> JSStr(toks[i][2]), next |-> i + 1]
         [] toks[i][1] = "num" ->
              IF \E n \in 0..MaxNum : ToString(n) = toks[i][2]
              THEN [ok |-> TRUE,
                    val |-> JSNum(CHOOSE n \in 0..MaxNum : ToString(n) = toks[i][2]),
                    next |-> i + 1]
              ELSE ParseFail
         [] toks[i][1] = "{" -> ParseMembers(toks, i + 1, <<>>, <<>>)
         [] OTHER -> ParseFail

\* JSON.parse: the value, or a SyntaxError
JSONParse(toks) ==
  LET r == ParseValue(toks, 1)
  IN IF r.ok /\ r.next = Len(toks) + 1
     THEN [ok |-> TRUE, val |-> r.val]
     ELSE ParseFail

\* new TextDecoder('utf-8').decode(object): never throws; bytes that are
\* not UTF-8 decode to the replacement character, which is not JSON.
TextDecode(object) ==
  IF object.utf8 THEN object.text ELSE <<Tok("raw", "\\uFFFD")>>

\* what simple-peer delivers for a string passed to send(): its UTF-8 bytes
TextEncode(text) == [utf8 |-> TRUE, text |-> text]

(***************************************************************************)
(* Messages (TextMessage, FileMessage, Base64File) and files.              *)
(***************************************************************************)
TextMessage(payload) ==
  JSObj(<<"type", "payload">>, <<JSStr("text"), JSStr(payload)>>)

Base64File(name, size, type, data) ==
  JSObj(<<"name", "size", "type", "data">>,
        <<JSStr(name), JSNum(size), JSStr(type), JSStr(data)>>)

\* sendFile builds { payload: base64File, type: 'file' }
FileMessage(base64File) ==
  JSObj(<<"payload", "type">>, <<base64File, JSStr("file")>>)

\* the File objects the user can pick: name, size, type and bytes
Files ==
  { [name |-> "a.png", size |-> 10, type |-> "image/png", bytes |-> "0123456789"],
    [name |-> "b.txt", size |-> 2, type |-> "text/plain", bytes |-> "hi"] }

\* base64 of the bytes of the files above
Base64(bytes) ==
  CASE bytes = "0123456789" -> "MDEyMzQ1Njc4OQ=="
    [] bytes = "hi" -> "aGk="
    [] OTHER -> ""

\* reader.result after readAsDataURL(file)
ReadAsDataURL(file) == "data:" \o file.type \o ";base64," \o Base64(file.bytes)

(***************************************************************************)
(* State.                                                                  *)
(*   peers         getState().peers: the registry, an object whose keys    *)
(*                 keep insertion order; a sequence of [userId, peer]      *)
(*   transports    every Peer ever constructed, by number: the id its      *)
(*                 handler was built for, the `once` listeners still       *)
(*                 registered, how often destroy() was called on it and    *)
(*                 the number of the last operation whose message was      *)
(*                 passed to its send() (0: none yet)                      *)
(*   streams       the participants the media store holds a stream for     *)
(*   readers       the FileReader of every sendFile call that started a    *)
(*                 read, and whether sendFile still awaits it              *)
(*   opCount       number of sending calls of the public send operations   *)
(*   effects       what the last handler did, in order: dispatched         *)
(*                 actions, socket emits, send and destroy calls, debug    *)
(*                 lines and a final uncaught exception                    *)
(*   last          which handler ran last, and on what                     *)
(***************************************************************************)
VARIABLES peers, transports, streams, readers, opCount, effects, last

vars == <<peers, transports, streams, readers, opCount, effects, last>>

NoPeer == 0

OnceEvents == {"error", "connect", "close"}

\* the part of the state the handlers work on
Store == [peers |-> peers, transports |-> transports, streams |-> streams,
          readers |-> readers, effects |-> <<>>]

\* getState().peers[userId], NoPeer when undefined
PeerOf(registry, userId) ==
  IF \E i \in 1..Len(registry) : registry[i].userId = userId
  THEN registry[CHOOSE i \in 1..Len(registry) : registry[i].userId = userId].peer
  ELSE NoPeer

Effect(s, e) == [s EXCEPT !.effects = Append(@, e)]

debug(s, line) == Effect(s, [kind |-> "debug", message |-> line])

Throw(s, error) == Effect(s, [kind |-> "throw", error |-> error])

Threw(effs) == Len(effs) > 0 /\ effs[Len(effs)].kind = "throw"

(***************************************************************************)
(* Action creators and the store.                                          *)
(***************************************************************************)
addPeer(peer, userId) ==
  [kind |-> "dispatch", type |-> "PEER_ADD", peer |-> peer, userId |-> userId]

removePeer(userId) ==
  [kind |-> "dispatch", type |-> "PEER_REMOVE", userId |-> userId]

\* NotifyActions.info / warning / error
Notify(level, message) ==
  [kind |-> "dispatch", type |-> "notify", level |-> level, message |-> message]

\* ChatActions.addMessage: a ChatEntry
addMessage(userId, message, image) ==
  [kind |-> "dispatch", type |-> "addMessage", userId |-> userId,
   message |-> message, timestamp |-> "now", image |-> image]

\* StreamActions.addStream / removeStream
addStream(userId) == [kind |-> "dispatch", type |-> "addStream", userId |-> userId]

removeStream(userId) ==
  [kind |-> "dispatch", type |-> "removeStream", userId |-> userId]

\* the peers reducer: PEER_ADD sets the key (a new key goes last),
\* PEER_REMOVE omits it.  It calls destroy() on nothing: createPeer and
\* handleError call destroy() themselves before they dispatch removePeer,
\* and the specification wants a replaced transport destroyed exactly once.
peersReducer(state, action) ==
  CASE action.type = "PEER_ADD" ->
         IF PeerOf(state, action.userId) # NoPeer
         THEN [i \in 1..Len(state) |->
                 IF state[i].userId = action.userId
                 THEN [userId |-> action.userId, peer |-> action.peer]
                 ELSE state[i]]
         ELSE Append(state, [userId |-> action.userId, peer |-> action.peer])
    [] action.type = "PEER_REMOVE" ->
         LET Keep(e) == e.userId # action.userId IN SelectSeq(state, Keep)
    [] OTHER -> state

\* the streams reducer
streamsReducer(state, action) ==
  CASE action.type = "addStream" -> state \cup {action.userId}
    [] action.type = "removeStream" -> state \ {action.userId}
    [] OTHER -> state

dispatch(s, action) ==
  [Effect(s, action) EXCEPT !.peers = peersReducer(s.peers, action),
                            !.streams = streamsReducer(s.streams, action)]

(***************************************************************************)
(* PeerHandler.  `userId` is this.user.id of the handler.                  *)
(***************************************************************************)
\* handleClose that leaves the registry alone
handleClose_NoRemove(s, userId) ==
  LET s1 == debug(s, "peer: %s, close")
      s2 == dispatch(s1, Notify("error", "Peer connection closed"))
  IN dispatch(s2, removeStream(userId))

handleClose(s, userId) ==
  LET s1 == debug(s, "peer: %s, close")
      s2 == dispatch(s1, Notify("error", "Peer connection closed"))
      s3 == dispatch(s2, removeStream(userId))
  IN dispatch(s3, removePeer(userId))

\* peer.destroy().  simple-peer emits 'close' from destroy(), inside the
\* call in some versions and in a later microtask in others: `sync` picks.
\* A later emission is the TransportClose action.
destroy(s, peer, sync) ==
  LET s1 == Effect([s EXCEPT !.transports[peer].destroyCount = @ + 1],
                   [kind |-> "destroy", peer |-> peer])
  IN IF sync /\ "close" \in s.transports[peer].listeners
     THEN handleClose([s1 EXCEPT !.transports[peer].listeners = @ \ {"close"}],
                      s.transports[peer].userId)
     ELSE s1

handleError(s, userId, sync) ==
  LET s1 == debug(s, "peer: %s, error %s")
      s2 == dispatch(s1, Notify("error", "A peer connection error occurred"))
      peer == PeerOf(s2.peers, userId)
      s3 == IF peer # NoPeer THEN destroy(s2, peer, sync) ELSE s2
  IN dispatch(s3, removePeer(userId))

\* handleSignal that forwards nothing
handleSignal_NoEmit(s, userId, signal) ==
  debug(s, "peer: %s, signal: %o")

handleSignal(s, userId, signal) ==
  LET s1 == debug(s, "peer: %s, signal: %o")
  IN Effect(s1, [kind |-> "emit", event |-> "signal", userId |-> userId,
                 signal |-> signal])

handleConnect(s, userId) ==
  LET s1 == debug(s, "peer: %s, connect")
      s2 == dispatch(s1, Notify("warning", "Peer connection established"))
  IN Effect(s2, [kind |-> "play"])

handleStream(s, userId) ==
  LET s1 == debug(s, "peer: %s, stream")
  IN dispatch(s1, addStream(userId))

\* handleData with the two fields of a file taken the wrong way round
handleData_Swapped(s, userId, object) ==
  LET parsed == JSONParse(TextDecode(object))
  IN IF ~parsed.ok THEN Throw(s, "SyntaxError")
     ELSE LET message == parsed.val
              s1 == debug(s, "peer: %s, message: %o")
          IN IF ~CanAccess(message) THEN Throw(s1, "TypeError")
             ELSE IF JSGet(message, "type").t = "str"
                     /\ JSGet(message, "type").v = "file"
                  THEN IF ~CanAccess(JSGet(message, "payload"))
                       THEN Throw(s1, "TypeError")
                       ELSE dispatch(s1,
                              addMessage(userId,
                                         JSGet(JSGet(message, "payload"), "data"),
                                         JSGet(JSGet(message, "payload"), "name")))
                  ELSE dispatch(s1, addMessage(userId, JSGet(message, "payload"),
                                               JSUndefined))

handleData(s, userId, object) ==
  LET parsed == JSONParse(TextDecode(object))
  IN IF ~parsed.ok THEN Throw(s, "SyntaxError")
     ELSE LET message == parsed.val
              s1 == debug(s, "peer: %s, message: %o")
          IN IF ~CanAccess(message) THEN Throw(s1, "TypeError")
             ELSE IF JSGet(message, "type").t = "str"
                     /\ JSGet(message, "type").v = "file"
                  THEN IF ~CanAccess(JSGet(message, "payload"))
                       THEN Throw(s1, "TypeError")
                       ELSE dispatch(s1,
                              addMessage(userId,
                                         JSGet(JSGet(message, "payload"), "name"),
                                         JSGet(JSGet(message, "payload"), "data")))
                  ELSE dispatch(s1, addMessage(userId, JSGet(message, "payload"),
                                               JSUndefined))

(***************************************************************************)
(* createPeer                                                              *)
(***************************************************************************)
NewPeer(userId) ==
  [userId |-> userId, listeners |-> OnceEvents, destroyCount |-> 0,
   lastSent |-> 0]

\* createPeer that forgets the old connection
createPeer_NoEvict(s, userId, sync) ==
  LET s1 == debug(s, "create peer: %s, stream:")
      s2 == dispatch(s1, Notify("warning", "Connecting to peer..."))
      peer == Len(s2.transports) + 1
      s4 == Effect([s2 EXCEPT !.transports = Append(@, NewPeer(userId))],
                   [kind |-> "new Peer", peer |-> peer])
  IN dispatch(s4, addPeer(peer, userId))

\* The options of the Peer constructor (initiator, config, stream) are
\* handed to simple-peer and read by no handler.
createPeer(s, userId, sync) ==
  LET s1 == debug(s, "create peer: %s, stream:")
      s2 == dispatch(s1, Notify("warning", "Connecting to peer..."))
      oldPeer == PeerOf(s2.peers, userId)
      s3 == IF oldPeer # NoPeer
            THEN dispatch(destroy(dispatch(s2, Notify("info",
                                    "Cleaning up old connection...")),
                                  oldPeer, sync),
                          removePeer(userId))
            ELSE s2
      peer == Len(s3.transports) + 1
      s4 == Effect([s3 EXCEPT !.transports = Append(@, NewPeer(userId))],
                   [kind |-> "new Peer", peer |-> peer])
  IN dispatch(s4, addPeer(peer, userId))

(***************************************************************************)
(* sendMessage.  `op` numbers the call of the public operation the message *)
(* comes from; `fails` are the transports whose send() throws.             *)
(***************************************************************************)
\* peer.send(data)
send(s, peer, data, op) ==
  Effect([s EXCEPT !.transports[peer].lastSent = op],
         [kind |-> "send", peer |-> peer, data |-> data, op |-> op])

\* the ChatEntry of a file that does not name the recipient
LocalEntry_NoRecipient(message, userId) ==
  IF JSGet(message, "type").t = "str" /\ JSGet(message, "type").v = "file"
  THEN addMessage("You",
                  JSStr("Send file: \""
                        \o JSToString(JSGet(JSGet(message, "payload"), "name"))
                        \o "\""),
                  JSGet(JSGet(message, "payload"), "data"))
  ELSE addMessage("You", JSGet(message, "payload"), JSUndefined)

\* the ChatEntry sendMessage logs for one recipient
LocalEntry(message, userId) ==
  IF JSGet(message, "type").t = "str" /\ JSGet(message, "type").v = "file"
  THEN addMessage("You",
                  JSStr("Send file: \""
                        \o JSToString(JSGet(JSGet(message, "payload"), "name"))
                        \o "\" to peer: " \o userId),
                  JSGet(JSGet(message, "payload"), "data"))
  ELSE addMessage("You", JSGet(message, "payload"), JSUndefined)

RECURSIVE each(_, _, _, _, _, _)
RECURSIVE each_SendFirst(_, _, _, _, _, _)

\* the iteration with the send before the ChatEntry
each_SendFirst(s, snapshot, i, message, op, fails) ==
  IF i > Len(snapshot) THEN s
  ELSE LET s1 == send(s, snapshot[i].peer, JSONStringify(message), op)
       IN IF snapshot[i].peer \in fails
          THEN Throw(s1, "send")
          ELSE each_SendFirst(dispatch(s1, LocalEntry(message, snapshot[i].userId)),
                              snapshot, i + 1, message, op, fails)

\* _.each(peers, (peer, userId) => ...) from entry i on; an exception of
\* the callback ends the iteration
each(s, snapshot, i, message, op, fails) ==
  IF i > Len(snapshot) THEN s
  ELSE LET s1 == dispatch(s, LocalEntry(message, snapshot[i].userId))
           s2 == send(s1, snapshot[i].peer, JSONStringify(message), op)
       IN IF snapshot[i].peer \in fails
          THEN Throw(s2, "send")
          ELSE each(s2, snapshot, i + 1, message, op, fails)

sendMessage(s, message, op, fails) ==
  each(debug(s, "Sending message type: %s to %s peers."), s.peers, 1,
       message, op, fails)

(***************************************************************************)
(* sendFile, up to the await and from the 'load' event on.                 *)
(***************************************************************************)
\* sendFile without the check for window.FileReader
sendFile_NoCheck(s, supported, file, op) ==
  Effect([s EXCEPT !.readers =
            Append(@, [file |-> file, op |-> op, state |-> "reading",
                       awaiting |-> TRUE])],
         [kind |-> "readAsDataURL", reader |-> Len(s.readers) + 1])

sendFile(s, supported, file, op) ==
  IF ~supported
  THEN dispatch(s, Notify("error", "File API is not supported by your browser"))
  ELSE Effect([s EXCEPT !.readers =
                 Append(@, [file |-> file, op |-> op, state |-> "reading",
                            awaiting |-> TRUE])],
              [kind |-> "readAsDataURL", reader |-> Len(s.readers) + 1])

\* sendFile that fills the descriptor with name and type the wrong way round
sendFileLoaded_Swapped(s, reader, fails) ==
  LET file == s.readers[reader].file
      base64File == Base64File(file.type, file.size, file.name,
                               ReadAsDataURL(file))
  IN sendMessage([s EXCEPT !.readers[reader].state = "loaded",
                           !.readers[reader].awaiting = FALSE],
                 FileMessage(base64File), s.readers[reader].op, fails)

\* the reader's 'load' listener resolves the promise and sendFile goes on
sendFileLoaded(s, reader, fails) ==
  LET file == s.readers[reader].file
      base64File == Base64File(file.name, file.size, file.type,
                               ReadAsDataURL(file))
  IN sendMessage([s EXCEPT !.readers[reader].state = "loaded",
                           !.readers[reader].awaiting = FALSE],
                 FileMessage(base64File), s.readers[reader].op, fails)

\* 'error' and 'abort' of the reader have no listener: the promise stays
\* pending
sendFileReadFailed(s, reader) ==
  [s EXCEPT !.readers[reader].state = "failed"]

(***************************************************************************)
(* The environment's inputs.                                               *)
(***************************************************************************)
Messages ==
  {TextMessage(p) : p \in Texts} \cup
  {FileMessage(Base64File(f.name, f.size, f.type, ReadAsDataURL(f))) : f \in Files}

WellFormed == {TextEncode(JSONStringify(m)) : m \in Messages}

Malformed ==
  { [utf8 |-> FALSE, text |-> <<>>],
    TextEncode(JSONStringify(JSNull)),
    TextEncode(JSONStringify(JSNum(5))),
    TextEncode(JSONStringify(JSObj(<<"type">>, <<JSStr("file")>>))) }

Inbound == WellFormed \cup Malformed

Transports == 1..Len(transports)

\* registered transports that have not reported connect: send() may throw
NotConnected ==
  {peers[i].peer : i \in {j \in 1..Len(peers) :
                            "connect" \in transports[peers[j].peer].listeners}}

(***************************************************************************)
(* Actions.                                                                *)
(***************************************************************************)
Init ==
  /\ peers = <<>>
  /\ transports = <<>>
  /\ streams = {}
  /\ readers = <<>>
  /\ opCount = 0
  /\ effects = <<>>
  /\ last = [op |-> "init", userId |-> "", peer |-> NoPeer, arg |-> <<>>]

Commit(s, l) ==
  /\ peers' = s.peers
  /\ transports' = s.transports
  /\ streams' = s.streams
  /\ readers' = s.readers
  /\ effects' = s.effects
  /\ last' = l

CreatePeer ==
  \E userId \in Participants, sync \in BOOLEAN :
    /\ Len(transports) < MaxTransports
    /\ Commit(createPeer(Store, userId, sync),
              [op |-> "createPeer", userId |-> userId,
               peer |-> Len(transports) + 1, arg |-> <<>>])
    /\ UNCHANGED opCount

\* the listeners of `once` are removed before they run
Once(s, peer, event) == [s EXCEPT !.transports[peer].listeners = @ \ {event}]

TransportError ==
  \E peer \in Transports, sync \in BOOLEAN :
    /\ "error" \in transports[peer].listeners
    /\ Commit(handleError(Once(Store, peer, "error"), transports[peer].userId, sync),
              [op |-> "error", userId |-> transports[peer].userId,
               peer |-> peer, arg |-> <<>>])
    /\ UNCHANGED opCount

TransportConnect ==
  \E peer \in Transports :
    /\ "connect" \in transports[peer].listeners
    /\ Commit(handleConnect(Once(Store, peer, "connect"), transports[peer].userId),
              [op |-> "connect", userId |-> transports[peer].userId,
               peer |-> peer, arg |-> <<>>])
    /\ UNCHANGED opCount

TransportClose ==
  \E peer \in Transports :
    /\ "close" \in transports[peer].listeners
    /\ Commit(handleClose(Once(Store, peer, "close"), transports[peer].userId),
              [op |-> "close", userId |-> transports[peer].userId,
               peer |-> peer, arg |-> <<>>])
    /\ UNCHANGED opCount

TransportSignal ==
  \E peer \in Transports, signal \in Signals :
    /\ Commit(handleSignal(Store, transports[peer].userId, signal),
              [op |-> "signal", userId |-> transports[peer].userId,
               peer |-> peer, arg |-> signal])
    /\ UNCHANGED opCount

TransportStream ==
  \E peer \in Transports :
    /\ Commit(handleStream(Store, transports[peer].userId),
              [op |-> "stream", userId |-> transports[peer].userId,
               peer |-> peer, arg |-> <<>>])
    /\ UNCHANGED opCount

TransportData ==
  \E peer \in Transports, object \in Inbound :
    /\ Commit(handleData(Store, transports[peer].userId, object),
              [op |-> "data", userId |-> transports[peer].userId,
               peer |-> peer, arg |-> object])
    /\ UNCHANGED opCount

SendMessage ==
  \E message \in Messages, fails \in SUBSET NotConnected :
    /\ opCount < MaxOps
    /\ opCount' = opCount + 1
    /\ Commit(sendMessage(Store, message, opCount + 1, fails),
              [op |-> "sendMessage", userId |-> "", peer |-> NoPeer,
               arg |-> message])

\* `supported`: whether window.FileReader exists when sendFile is called
SendFile ==
  \E file \in Files, supported \in BOOLEAN :
    /\ supported => opCount < MaxOps
    /\ opCount' = IF supported THEN opCount + 1 ELSE opCount
    /\ Commit(sendFile(Store, supported, file, opCount + 1),
              [op |-> "sendFile", userId |-> "", peer |-> NoPeer,
               arg |-> [file |-> file, supported |-> supported]])

ReaderLoad ==
  \E reader \in 1..Len(readers), fails \in SUBSET NotConnected :
    /\ readers[reader].state = "reading"
    /\ Commit(sendFileLoaded(Store, reader, fails),
              [op |-> "load", userId |-> "", peer |-> NoPeer,
               arg |-> reader])
    /\ UNCHANGED opCount

ReaderError ==
  \E reader \in 1..Len(readers) :
    /\ readers[reader].state = "reading"
    /\ Commit(sendFileReadFailed(Store, reader),
              [op |-> "readError", userId |-> "", peer |-> NoPeer,
               arg |-> reader])
    /\ UNCHANGED opCount

(***************************************************************************)
(* Three specifications over the same state and the same handlers.         *)
(*                                                                         *)
(* The handlers of a transport read and write the registry, the listeners  *)
(* and the streams, never the readers or what was sent; the send           *)
(* operations read the registry and write only the readers and what was    *)
(* sent; handleData reads nothing but the id of its handler.               *)
(*   Spec      createPeer and the events a controller's life consists of   *)
(*   SendSpec  createPeer, connect and close (an error event changes the   *)
(*             registry as a close event does: it removes the entry of     *)
(*             its participant), and the send operations                   *)
(*   DataSpec  createPeer, connect, close and the data events              *)
(***************************************************************************)
Next ==
  \/ TransportError
  \/ TransportClose
  \/ TransportConnect
  \/ TransportSignal
  \/ TransportStream
  \/ CreatePeer

Spec == Init /\ [][Next]_vars

SendNext ==
  \/ CreatePeer
  \/ TransportConnect
  \/ TransportClose
  \/ SendMessage
  \/ SendFile
  \/ ReaderLoad
  \/ ReaderError

SendSpec == Init /\ [][SendNext]_vars

DataNext ==
  \/ CreatePeer
  \/ TransportConnect
  \/ TransportClose
  \/ TransportData

DataSpec == Init /\ [][DataNext]_vars

(***************************************************************************)
(* Vocabulary of the properties.                                           *)
(***************************************************************************)
Fired(peer, event) == event \notin transports[peer].listeners

\* the controller states of the specification, read off the listeners
Terminal(peer) == Fired(peer, "error") \/ Fired(peer, "close")

Connected(peer) == Fired(peer, "connect") /\ ~Terminal(peer)

EntriesOf(registry, userId) ==
  {i \in 1..Len(registry) : registry[i].userId = userId}

Registered == {peers[i].peer : i \in 1..Len(peers)}

\* positions in a handler's effects
SendsIn(effs) == {i \in 1..Len(effs) : effs[i].kind = "send"}

ChatEntriesIn(effs) ==
  {i \in 1..Len(effs) : effs[i].kind = "dispatch" /\ effs[i].type = "addMessage"}

NotificationsIn(effs, level) ==
  {i \in 1..Len(effs) :
     /\ effs[i].kind = "dispatch"
     /\ effs[i].type = "notify"
     /\ effs[i].level = level}

DestroyedIn(effs) ==
  {effs[i].peer : i \in {j \in 1..Len(effs) : effs[j].kind = "destroy"}}

DispatchesIn(effs, type) ==
  {i \in 1..Len(effs) : effs[i].kind = "dispatch" /\ effs[i].type = type}

EmitsIn(effs) == {i \in 1..Len(effs) : effs[i].kind = "emit"}

\* a transport nobody has destroyed and that has reported neither close nor
\* error
Live(peer) == transports[peer].destroyCount = 0 /\ ~Terminal(peer)

Sends == SendsIn(effects)

ChatEntries == ChatEntriesIn(effects)

\* the last handler was a run of sendMessage (called directly or by sendFile)
Broadcast == last.op \in {"sendMessage", "load"}

C2_TerminalSingularity ==
  [][\A t \in Transports :
       (Terminal(t) /\ last'.peer = t
          /\ last'.op \in {"error", "close", "connect", "signal", "stream"})
       => /\ effects' = <<>>
          /\ peers' = peers
          /\ streams' = streams]_vars

(***************************************************************************)
(* C3  Replacement isolation.                                              *)
(***************************************************************************)
\* the registry holds a newer transport for the participant of peer
Replaced(peer) ==
  /\ PeerOf(peers, transports[peer].userId) # NoPeer
  /\ PeerOf(peers, transports[peer].userId) > peer

\* C3: a close or error event of a transport that createPeer has replaced
\* leaves the registry entry, the transport and the stream of the new
\* controller alone.
C3_ReplacementIsolation ==
  [][\A t \in Transports :
       (Replaced(t) /\ last'.peer = t /\ last'.op \in {"error", "close"})
       => /\ peers' = peers
          /\ streams' = streams
          /\ transports'[PeerOf(peers, transports[t].userId)].destroyCount
               = transports[PeerOf(peers, transports[t].userId)].destroyCount]_vars

(***************************************************************************)
(* C4  Fan-out completeness.                                               *)
(***************************************************************************)
\* C4: a run of sendMessage calls send() on exactly the registered
\* transports that are Connected, once each.
C4_FanOutCompleteness ==
  Broadcast =>
    /\ {effects[i].peer : i \in Sends} = {t \in Registered : Connected(t)}
    /\ \A i, j \in Sends : effects[i].peer = effects[j].peer => i = j

(***************************************************************************)
(* C5  Malformed inbound handling.                                         *)
(***************************************************************************)
\* C5: a data event whose payload is not a structured message produces no
\* ChatEntry, changes neither controller nor registry, and is reported
\* (logged) instead of failing the handler.
C5_MalformedInbound ==
  [][(last'.op = "data" /\ last'.arg \in Malformed) =>
       /\ ~Threw(effects')
       /\ ChatEntriesIn(effects') = {}
       /\ \E i \in 1..Len(effects') : effects'[i].kind \in {"debug", "dispatch"}
       /\ peers' = peers
       /\ transports' = transports
       /\ streams' = streams]_vars

(***************************************************************************)
(* C6  Per-recipient logging on broadcast.                                 *)
(***************************************************************************)
\* C6: in a run of sendMessage every call of send() comes right after one
\* ChatEntry of the local user ("You"), there are as many ChatEntry records
\* as calls of send(), no transport gets two, and every call of send()
\* passes the same payload, the serialized message.
C6_PerRecipientLogging ==
  Broadcast =>
    /\ \A i \in Sends : i - 1 \in ChatEntries /\ effects[i - 1].userId = "You"
    /\ \A i \in ChatEntries : i + 1 \in Sends
    /\ Cardinality(ChatEntries) = Cardinality(Sends)
    /\ \A i, j \in Sends :
         /\ effects[i].data = effects[j].data
         /\ effects[i].peer = effects[j].peer => i = j
    /\ last.op = "sendMessage" =>
         \A i \in Sends : effects[i].data = JSONStringify(last.arg)

\* the file of a sendFile call went to two connected peers
C6_Witness ==
  /\ last.op = "load"
  /\ Cardinality(Sends) = 2
  /\ Cardinality(ChatEntries) = 2
  /\ \A i \in Sends : Connected(effects[i].peer)

(***************************************************************************)
(* C7  Inbound demultiplexing.                                             *)
(***************************************************************************)
\* the ChatEntry records among a handler's effects
Received(effs) == {effs[i] : i \in ChatEntriesIn(effs)}

\* C7: a well-formed data event on a Connected controller produces exactly
\* one ChatEntry, of the controller's participant: name and encoded data
\* for a file, the text and no image for a text; controller, registry and
\* streams stay as they are.
C7_InboundDemultiplexing ==
  [][(last'.op = "data" /\ last'.arg \in WellFormed /\ Connected(last'.peer)) =>
       /\ Cardinality(ChatEntriesIn(effects')) = 1
       /\ \A p \in Texts :
            last'.arg = TextEncode(JSONStringify(TextMessage(p))) =>
              Received(effects')
                = {addMessage(transports[last'.peer].userId, JSStr(p), JSUndefined)}
       /\ \A f \in Files :
            last'.arg = TextEncode(JSONStringify(FileMessage(
                          Base64File(f.name, f.size, f.type, ReadAsDataURL(f))))) =>
              Received(effects')
                = {addMessage(transports[last'.peer].userId, JSStr(f.name),
                              JSStr(ReadAsDataURL(f)))}
       /\ ~Threw(effects')
       /\ peers' = peers
       /\ transports' = transports
       /\ streams' = streams]_vars

\* a Connected controller has received a file
C7_Witness ==
  /\ last.op = "data"
  /\ Connected(last.peer)
  /\ \E i \in ChatEntries :
       /\ effects[i].userId = transports[last.peer].userId
       /\ effects[i].message = JSStr("a.png")
       /\ effects[i].image.t = "str"

(***************************************************************************)
(* C8  Per-connection message order.                                       *)
(***************************************************************************)
\* C8: the calls of sendMessage and sendFile are numbered in the order the
\* user makes them; on every transport the numbers of the messages passed
\* to send() only grow.
C8_PerConnectionOrder ==
  [][\A t \in Transports :
       transports'[t].lastSent >= transports[t].lastSent]_vars

(***************************************************************************)
(* C9  File read failure.                                                  *)
(***************************************************************************)
\* C9: when the read of a file has failed, sendFile has ended, and the
\* handler of the failure has notified the user and sent nothing.
C9_ReadFailure ==
  /\ \A r \in 1..Len(readers) :
       readers[r].state = "failed" => ~readers[r].awaiting
  /\ last.op = "readError" =>
       /\ NotificationsIn(effects, "error") # {}
       /\ Sends = {}
       /\ ChatEntries = {}

(***************************************************************************)
(* C10  Unsupported environment.                                           *)
(***************************************************************************)
\* C10: sendFile without window.FileReader dispatches one error
\* notification and nothing else: no read is started, nothing is sent, no
\* ChatEntry is produced, the registry is as it was.
C10_UnsupportedEnvironment ==
  [][(last'.op = "sendFile" /\ ~last'.arg.supported) =>
       /\ effects' = <<Notify("error", "File API is not supported by your browser")>>
       /\ readers' = readers
       /\ peers' = peers
       /\ transports' = transports
       /\ opCount' = opCount]_vars

\* sendFile was called without a FileReader while a peer was registered
C10_Witness ==
  /\ last.op = "sendFile"
  /\ ~last.arg.supported
  /\ Len(peers) > 0
  /\ NotificationsIn(effects, "error") # {}

(***************************************************************************)
(* C11  No uncaught failure.                                               *)
(***************************************************************************)
\* C11: no handler and no public operation ends with an exception that
\* nobody catches: a payload that cannot be decoded and a send() that
\* fails are turned into a notification or a dropped message.
C11_NoUncaughtFailure == ~Threw(effects)

(***************************************************************************)
(* C12  Round trip.                                                        *)
(***************************************************************************)
\* the byte strings a data URL is decoded to
ByteStrings == {f.bytes : f \in Files} \cup {""}

\* decode(descriptor) of the FileTransferCodec: name, size and mime type are
\* the descriptor's fields, the bytes are the ones whose base64 data URL is
\* the descriptor's data; no result when the descriptor is not of that form
decode(descriptor) ==
  LET name == JSGet(descriptor, "name")
      size == JSGet(descriptor, "size")
      type == JSGet(descriptor, "type")
      data == JSGet(descriptor, "data")
      Fits(b) == data.v = "data:" \o type.v \o ";base64," \o Base64(b)
  IN IF /\ name.t = "str" /\ size.t = "num" /\ type.t = "str" /\ data.t = "str"
        /\ Cardinality({b \in ByteStrings : Fits(b)}) = 1
     THEN [ok |-> TRUE,
           file |-> [name |-> name.v, size |-> size.n, type |-> type.v,
                     bytes |-> CHOOSE b \in ByteStrings : Fits(b)]]
     ELSE [ok |-> FALSE]

C13_ErrorTransition ==
  [][\A t \in Transports :
       (Live(t) /\ last'.op = "error" /\ last'.peer = t) =>
         /\ NotificationsIn(effects', "error") # {}
         /\ DestroyedIn(effects') = {t}
         /\ transports'[t].destroyCount = 1
         /\ PeerOf(peers', transports[t].userId) = NoPeer]_vars

(***************************************************************************)
(* C14  Close transition.                                                  *)
(***************************************************************************)
\* C14: when the transport of a Connected controller reports close,
\* handleClose dispatches the 'Peer connection closed' notification once,
\* removeStream for the participant once, and the registry has no entry for
\* the participant afterwards; and no run of sendMessage calls send() on a
\* transport that has reported close.
C14_CloseTransition ==
  [][/\ \A t \in Transports :
          (Connected(t) /\ last'.op = "close" /\ last'.peer = t) =>
            /\ Cardinality(NotificationsIn(effects', "error")) = 1
            /\ \A i \in NotificationsIn(effects', "error") :
                 effects'[i].message = "Peer connection closed"
            /\ Cardinality(DispatchesIn(effects', "removeStream")) = 1
            /\ \A i \in DispatchesIn(effects', "removeStream") :
                 effects'[i].userId = transports[t].userId
            /\ PeerOf(peers', transports[t].userId) = NoPeer
     /\ last'.op \in {"sendMessage", "load"} =>
          \A i \in SendsIn(effects') :
            "close" \in transports'[effects'[i].peer].listeners
     /\ \A i \in 1..Len(peers') :
          "close" \in transports'[peers'[i].peer].listeners]_vars

\* a Connected transport has reported close while another participant
\* stays registered
C14_Witness ==
  /\ last.op = "close"
  /\ Fired(last.peer, "connect")
  /\ ~Fired(last.peer, "error")
  /\ transports[last.peer].destroyCount = 0
  /\ NotificationsIn(effects, "error") # {}
  /\ PeerOf(peers, last.userId) = NoPeer
  /\ Registered # {}

(***************************************************************************)
(* C15  Signal forwarding.                                                 *)
(***************************************************************************)
\* C15: a signal event makes handleSignal emit 'signal' once on the socket,
\* with the id of the handler's participant and the signal, dispatch
\* nothing, and leave the controller, the registry and the streams as they
\* are.
C15_SignalForwarding ==
  [][last'.op = "signal" =>
       /\ Cardinality(EmitsIn(effects')) = 1
       /\ \A i \in EmitsIn(effects') :
            /\ effects'[i].event = "signal"
            /\ effects'[i].userId = transports[last'.peer].userId
            /\ effects'[i].signal = last'.arg
       /\ \A i \in 1..Len(effects') : effects'[i].kind # "dispatch"
       /\ peers' = peers
       /\ transports' = transports
       /\ streams' = streams]_vars

\* a registered transport has raised a signal that was forwarded
C15_Witness ==
  /\ last.op = "signal"
  /\ last.peer \in Registered
  /\ last.arg \in Signals
  /\ EmitsIn(effects) # {}

(***************************************************************************)
(* C16  Independent fan-out.                                               *)
(***************************************************************************)
\* C16: a run of sendMessage gives every entry of the registry it iterates
\* its ChatEntry and its call of send(), whatever happens for another
\* entry (its send() throwing).
C16_IndependentFanOut ==
  Broadcast =>
    /\ {effects[i].peer : i \in Sends} = Registered
    /\ Cardinality(ChatEntries) = Len(peers)

(***************************************************************************)
(* C17  Text/file logging asymmetry.                                       *)
(***************************************************************************)
\* the message a call of send() carries
SentMessage(i) == JSONParse(effects[i].data).val

IsFile(message) ==
  JSGet(message, "type").t = "str" /\ JSGet(message, "type").v = "file"

\* C17 as claimed: a file message that reaches N recipients produces N
\* ChatEntry records, each naming its recipient; a text message that
\* reaches N recipients produces a single ChatEntry.
C17_Original ==
  (Broadcast /\ ~Threw(effects) /\ Sends # {}) =>
    IF \E i \in Sends : IsFile(SentMessage(i))
    THEN Cardinality(ChatEntries) = Len(peers)
    ELSE Cardinality(ChatEntries) = 1

\* C17 as amended: every call of send() comes right after one ChatEntry of
\* "You", for a text as for a file, so a message that reaches N recipients
\* produces N records; the record of a file names the file and the
\* recipient and carries the encoded data, the record of a text is the
\* text, with no image, the same for every recipient.
C17_LoggingPerRecipient ==
  Broadcast =>
    /\ \A i \in Sends :
         /\ i - 1 \in ChatEntries
         /\ IF IsFile(SentMessage(i))
            THEN effects[i - 1]
                   = addMessage("You",
                       JSStr("Send file: \""
                             \o JSGet(JSGet(SentMessage(i), "payload"), "name").v
                             \o "\" to peer: "
                             \o transports[effects[i].peer].userId),
                       JSGet(JSGet(SentMessage(i), "payload"), "data"))
            ELSE effects[i - 1]
                   = addMessage("You", JSGet(SentMessage(i), "payload"), JSUndefined)
    /\ \A i \in ChatEntries : i + 1 \in Sends
    /\ ~Threw(effects) => Cardinality(ChatEntries) = Len(peers)

\* a text has gone to two recipients and left two equal ChatEntry records
C17_Witness ==
  /\ last.op = "sendMessage"
  /\ ~IsFile(last.arg)
  /\ Cardinality(Sends) = 2
  /\ Cardinality(ChatEntries) = 2
  /\ \A i, j \in ChatEntries : effects[i] = effects[j]

(***************************************************************************)
(* C18  No orphaned live transport.                                        *)
(***************************************************************************)
\* C18: every transport that has not been destroyed and has reported
\* neither close nor error is the registry entry of its participant.
C18_NoOrphanedLiveTransport ==
  \A t \in Transports :
    Live(t) => PeerOf(peers, transports[t].userId) = t

(***************************************************************************)
(* C19  No stale media stream.                                             *)
(***************************************************************************)
\* the newest transport created for the participant of peer
Newest(peer) ==
  \A t \in Transports : transports[t].userId = transports[peer].userId => t <= peer

\* C19: when the newest controller of a participant is Closed or Errored,
\* the streams hold no stream of that participant.
C19_NoStaleMediaStream ==
  \A t \in Transports :
    (Newest(t) /\ Terminal(t)) => transports[t].userId \notin streams

(***************************************************************************)
(* C20  sendFile recipient snapshot.                                       *)
(***************************************************************************)
\* C20: when the read of a file completes, send() is called on the
\* transports that are in the registry at that moment, all of them and no
\* other: not on one that was removed while the read was pending, and on
\* every one that was registered meanwhile.
C20_RecipientSnapshot ==
  [][last'.op = "load" =>
       {effects'[i].peer : i \in SendsIn(effects')}
         = {peers[i].peer : i \in 1..Len(peers)}]_vars

====
